---- MODULE Spec2Model ----
(***************************************************************************)
(* Model of the batch-transfer core of the repository:                     *)
(*   BatchTransactionManager  (src/unnamed/part_007)                       *)
(*   TransactionBuilder       (src/blockchain/TransactionBuilder.js)       *)
(*   TokenManager             (src/unnamed/part_008)                       *)
(*   UniversalWalletAdapter   (src/blockchain/UniversalWalletAdapter.js)   *)
(*                                                                         *)
(* What the ledger answers is in lamports (1 SOL = 10^9 lamports); the     *)
(* code works in SOL, in IEEE 754 doubles, which are carried exactly with  *)
(* the rounding of every operation (see "IEEE 754 double values").  A      *)
(* whole-number option that may be undefined is a record                   *)
(* [nan |-> BOOLEAN, val |-> Int].  A boolean option that may be undefined *)
(* is one of the strings "true", "false", "undefined".                     *)
(***************************************************************************)
EXTENDS Integers, Sequences, FiniteSets, TLC

\* ------------------------------------------------------------------ bounds
MaxHoldings == 2
MaxBatches == 3
MaxRunHoldings == 1
MaxTwiceHoldings == 1
MaxInstructionCount == 3
MaxTokenCount == 40

\* ------------------------------------------------------- program constants
SizeLimit == 1200
FallbackComputeUnits == 75000
RentExemptMin == 2039280
FailedBatchIndex == 1111111
DefaultMaxTransactionSize == 1200
MinComputeUnits == 50000
MaxComputeUnits == 1400000

\* --------------------------------------------------------- value encodings
Num(n) == [nan |-> FALSE, val |-> n]
NaN == [nan |-> TRUE, val |-> 0]
Truthy(b) == b = "true"

\* ------------------------------------------------- IEEE 754 double values
\* A finite double is carried exactly: a sign and a magnitude counted in
\* units of 2^-96, written as six limbs in base 2^24, least significant limb
\* first (FracLimbs limbs of fraction, then two of integer part).  Every
\* double between 2^-42 and 2^48 in magnitude is such a number, and so are
\* the exact sums, differences and small multiples the code forms of them.
FracLimbs == 4
LimbBits == 24
LimbBase == 2^LimbBits
MantissaBits == 53

\* The element of a one-element set.  The({F(x) : x \in {e}}) is F of the
\* value of e: an operation works on the values of its operands, each
\* computed once, as the arithmetic of the program does.
The(S) == CHOOSE v \in S : TRUE

BZero == <<0, 0, 0, 0, 0, 0>>

\* a + b, a - b (for a >= b) and a < b, for two magnitudes
BAdd(a, b) ==
    LET s1 == a[1] + b[1]
        s2 == a[2] + b[2] + (s1 \div LimbBase)
        s3 == a[3] + b[3] + (s2 \div LimbBase)
        s4 == a[4] + b[4] + (s3 \div LimbBase)
        s5 == a[5] + b[5] + (s4 \div LimbBase)
        s6 == a[6] + b[6] + (s5 \div LimbBase)
    IN  <<s1 % LimbBase, s2 % LimbBase, s3 % LimbBase,
          s4 % LimbBase, s5 % LimbBase, s6 % LimbBase>>
BSub(a, b) ==
    LET s1 == a[1] - b[1]
        s2 == a[2] - b[2] - (IF s1 < 0 THEN 1 ELSE 0)
        s3 == a[3] - b[3] - (IF s2 < 0 THEN 1 ELSE 0)
        s4 == a[4] - b[4] - (IF s3 < 0 THEN 1 ELSE 0)
        s5 == a[5] - b[5] - (IF s4 < 0 THEN 1 ELSE 0)
        s6 == a[6] - b[6] - (IF s5 < 0 THEN 1 ELSE 0)
    IN  <<s1 % LimbBase, s2 % LimbBase, s3 % LimbBase,
          s4 % LimbBase, s5 % LimbBase, s6 % LimbBase>>
BLess(a, b) ==
    IF a[6] # b[6] THEN a[6] < b[6]
    ELSE IF a[5] # b[5] THEN a[5] < b[5]
    ELSE IF a[4] # b[4] THEN a[4] < b[4]
    ELSE IF a[3] # b[3] THEN a[3] < b[3]
    ELSE IF a[2] # b[2] THEN a[2] < b[2]
    ELSE a[1] < b[1]

\* a * k for a small k (k <= 127 keeps every limb product within 31 bits)
BTimes(a, k) ==
    The({LET s1 == m[1] * k
             s2 == m[2] * k + (s1 \div LimbBase)
             s3 == m[3] * k + (s2 \div LimbBase)
             s4 == m[4] * k + (s3 \div LimbBase)
             s5 == m[5] * k + (s4 \div LimbBase)
             s6 == m[6] * k + (s5 \div LimbBase)
         IN  <<s1 % LimbBase, s2 % LimbBase, s3 % LimbBase,
               s4 % LimbBase, s5 % LimbBase, s6 % LimbBase>>
         : m \in {a}})

\* shifts by k bits, 0 <= k < LimbBits
BShiftRight(a, k) ==
    The({LET limb(j) == (m[j] \div 2^k)
                        + (IF j < 6 THEN (m[j + 1] % 2^k) * 2^(LimbBits - k) ELSE 0)
         IN  <<limb(1), limb(2), limb(3), limb(4), limb(5), limb(6)>>
         : m \in {a}})
BShiftLeft(a, k) ==
    The({LET limb(j) == ((m[j] % 2^(LimbBits - k)) * 2^k)
                        + (IF j > 1 THEN m[j - 1] \div 2^(LimbBits - k) ELSE 0)
         IN  <<limb(1), limb(2), limb(3), limb(4), limb(5), limb(6)>>
         : m \in {a}})

\* number of significant bits of a limb and of a magnitude
Len3(x) == IF x >= 4 THEN 3 ELSE IF x >= 2 THEN 2 ELSE x
Len6(x) == IF x >= 8 THEN 3 + Len3(x \div 8) ELSE Len3(x)
Len12(x) == IF x >= 64 THEN 6 + Len6(x \div 64) ELSE Len6(x)
LimbLen(x) == IF x >= 4096 THEN 12 + Len12(x \div 4096) ELSE Len12(x)
BitLen(a) ==
    IF a[6] # 0 THEN 5 * LimbBits + LimbLen(a[6])
    ELSE IF a[5] # 0 THEN 4 * LimbBits + LimbLen(a[5])
    ELSE IF a[4] # 0 THEN 3 * LimbBits + LimbLen(a[4])
    ELSE IF a[3] # 0 THEN 2 * LimbBits + LimbLen(a[3])
    ELSE IF a[2] # 0 THEN LimbBits + LimbLen(a[2])
    ELSE LimbLen(a[1])

\* The magnitude a with its s lowest bits dropped (q whole limbs and o bits
\* of limb q + 1), to nearest, ties to even.  inexact says that the exact
\* value lies strictly above a (a division that left a remainder).
RoundAt(a, s, inexact) ==
    LET q == s \div LimbBits
        o == s % LimbBits
        unit == 2^o
        lowInCut == a[q + 1] % unit
        \* the highest dropped bit and whether anything lies below it
        guardLimb == IF o > 0 THEN lowInCut ELSE a[q]
        half == IF o > 0 THEN unit \div 2 ELSE LimbBase \div 2
        guard == guardLimb >= half
        limbsBelow == IF o > 0 THEN q ELSE q - 1
        below == guardLimb % half # 0 \/ \E i \in 1..limbsBelow : a[i] # 0
        odd == (a[q + 1] \div unit) % 2 = 1
        up == guard /\ (below \/ inexact \/ odd)
        keptLimb(j) == IF j <= q THEN 0
                       ELSE IF j = q + 1 THEN a[j] - lowInCut
                       ELSE a[j]
        oneLimb(j) == IF j = q + 1 THEN unit ELSE 0
        kept == <<keptLimb(1), keptLimb(2), keptLimb(3),
                  keptLimb(4), keptLimb(5), keptLimb(6)>>
        one == <<oneLimb(1), oneLimb(2), oneLimb(3), oneLimb(4), oneLimb(5), oneLimb(6)>>
    IN  IF s <= 0 THEN a
        ELSE IF up THEN The({BAdd(k, u) : k \in {kept}, u \in {one}})
        ELSE kept

\* Rounding of an exact magnitude to a double: 53 significant bits
Round53(a, inexact) ==
    The({The({RoundAt(m, s, inexact) : s \in {BitLen(m) - MantissaBits}}) : m \in {a}})

Dbl(neg, mag) == The({[nan |-> FALSE, neg |-> neg /\ m # BZero, mag |-> m] : m \in {mag}})
DNaN == [nan |-> TRUE, neg |-> FALSE, mag |-> BZero]
DZero == Dbl(FALSE, BZero)

\* Long division: one limb of the fraction of r / d (r < d <= 2^25), six
\* bits at a time, and the remainder left.
FracLimb(r, d) ==
    LET x1 == r * 64
        x2 == (x1 % d) * 64
        x3 == (x2 % d) * 64
        x4 == (x3 % d) * 64
    IN  [limb |-> (((x1 \div d) * 64 + (x2 \div d)) * 64 + (x3 \div d)) * 64 + (x4 \div d),
         rem |-> x4 % d]

\* The first n limbs of the fraction of r / d, most significant first,
\* followed by the remainder left after them.
RECURSIVE FractionLimbs(_, _, _)
FractionLimbs(r, d, n) ==
    IF n = 0 THEN <<r>>
    ELSE The({<<f.limb>> \o FractionLimbs(f.rem, d, n - 1) : f \in {FracLimb(r, d)}})

\* n / (5^fives * 2^twos) for a whole number n >= 0, as the division of two
\* doubles gives it (both operands exact, the quotient rounded once)
JsDivide(n, fives, twos) ==
    The({LET quotient == <<f[4], f[3], f[2], f[1],
                           (n \div 5^fives) % LimbBase, (n \div 5^fives) \div LimbBase>>
             inexact == f[5] # 0 \/ f[4] % 2^twos # 0
         IN  Dbl(FALSE, Round53(BShiftRight(quotient, twos), inexact))
         : f \in {FractionLimbs(n % 5^fives, 5^fives, FracLimbs)}})

\* n / 10^p; also the double that the decimal literal n * 10^-p denotes
JsDivPow10(n, p) == JsDivide(n, p, p)

\* a + b and a - b: NaN (or undefined) on either side gives NaN
JsNeg(a) == The({IF x.nan THEN x ELSE Dbl(~x.neg, x.mag) : x \in {a}})
JsPlus(a, b) ==
    The({IF x.nan \/ y.nan THEN DNaN
         ELSE IF x.neg = y.neg THEN Dbl(x.neg, Round53(BAdd(x.mag, y.mag), FALSE))
         ELSE IF BLess(x.mag, y.mag) THEN Dbl(y.neg, Round53(BSub(y.mag, x.mag), FALSE))
         ELSE Dbl(x.neg, Round53(BSub(x.mag, y.mag), FALSE))
         : x \in {a}, y \in {b}})
JsMinus(a, b) == JsPlus(a, JsNeg(b))
\* a * k for a whole number 0 <= k <= 127
JsTimesInt(a, k) ==
    The({IF x.nan THEN DNaN ELSE Dbl(x.neg, Round53(BTimes(x.mag, k), FALSE)) : x \in {a}})
\* a > b and a <= b: every comparison with NaN is false
JsGreater(a, b) ==
    \E x \in {a}, y \in {b} :
        /\ ~x.nan /\ ~y.nan
        /\ IF x.neg # y.neg THEN y.neg
           ELSE IF x.neg THEN BLess(x.mag, y.mag) ELSE BLess(y.mag, x.mag)
JsLessEq(a, b) == \E x \in {a}, y \in {b} : ~x.nan /\ ~y.nan /\ ~JsGreater(x, y)
\* Math.max(0, a): NaN when a is NaN
JsMax0(a) ==
    The({IF x.nan THEN DNaN ELSE IF JsGreater(x, DZero) THEN x ELSE DZero : x \in {a}})

\* Math.floor(a * LAMPORTS_PER_SOL) for a >= 0: the product with 10^9 is
\* rounded to a double before the floor is taken
FloorLamports(a) ==
    The({product[FracLimbs + 1] + product[FracLimbs + 2] * LimbBase
         : product \in {Round53(BShiftLeft(BTimes(BTimes(BTimes(a.mag, 125), 125), 125), 9),
                                FALSE)}})

\* ------------------------------------------- program constants, in SOL
\* the literals 0.01 (dust threshold), 0.000005 (base fee), 0.01 (default
\* reserve), 0.001 and 0.3 (reserves a caller passes) and 0.00203928 (rent
\* of a token account when the ledger does not answer; the same double as
\* RentExemptMin / 10^9)
DustThreshold == JsDivPow10(1, 2)
BaseFee == JsDivPow10(5, 6)
DefaultReserve == JsDivPow10(1, 2)
SmallReserve == JsDivPow10(1, 3)
LargeReserve == JsDivPow10(3, 1)
EstimatedRent == JsDivPow10(203928, 8)

\* SolanaClient.getSolBalance: balance / LAMPORTS_PER_SOL
GetSolBalance(lamports) == JsDivPow10(lamports, 9)

\* ------------------------------------------------------------------ inputs
\* What the ledger answers when the destination token account of a holding
\* is read, and the size of the holding's transfer instruction ("wide"
\* stands for the oversized or malformed data of the spec's scenario D).
DestStates == {"present", "absent", "unreadable"}
IxShapes == {"plain", "wide"}
\* A token account of the wallet.  dest is what the first call was
\* answered when it read the holding's destination account, "unread"
\* until it has.
HoldingKinds == [dest : {"unread"}, shape : IxShapes]
HoldingLists == UNION {[1..n -> HoldingKinds] : n \in 0..MaxHoldings}

\* Balances in lamports.  22047580 is, for one holding whose destination
\* account is to be created and a reserve of 0.01, the balance whose sweep
\* is 0.01 SOL in exact arithmetic; 310000000 is 0.01 SOL above a reserve
\* of 0.3.
SolBalances == {1000000, 15000000, 22047580, 30000000, 310000000, 1000000000}

\* The options object of createBatchTransactions.  DefaultOptions is the
\* default parameter value, used when the caller passes no options at all;
\* EmptyOptions is {} (what performBatchTransfer passes by default).
DefaultOptions ==
    [addTxFailed |-> "true", includeSol |-> "true",
     solReserveAmount |-> DefaultReserve,
     maxTransactionSize |-> Num(DefaultMaxTransactionSize)]
EmptyOptions ==
    [addTxFailed |-> "undefined", includeSol |-> "undefined",
     solReserveAmount |-> DNaN, maxTransactionSize |-> NaN]
ExplicitOptions ==
    [addTxFailed : {"true", "false"}, includeSol : {"true", "false"},
     solReserveAmount : {DefaultReserve, SmallReserve},
     maxTransactionSize : {Num(400), Num(2000)}]
\* An options object that leaves out some of includeSol, solReserveAmount
\* and maxTransactionSize
PartialOptions ==
    [addTxFailed : {"false"}, includeSol : {"true", "undefined"},
     solReserveAmount : {DefaultReserve, DNaN},
     maxTransactionSize : {Num(DefaultMaxTransactionSize), NaN}]
\* A sweep of the native balance alone that keeps 0.3 SOL
LargeReserveOptions ==
    {[addTxFailed |-> "false", includeSol |-> "true",
      solReserveAmount |-> LargeReserve, maxTransactionSize |-> Num(2000)]}
OptionSets == ExplicitOptions \cup PartialOptions \cup LargeReserveOptions
              \cup {DefaultOptions, EmptyOptions}

VARIABLES
    holdings,      \* the wallet's token accounts (zero balances filtered
                   \* out), each with the answer the first call got when it
                   \* read the holding's destination account
    solBalance,    \* native balance, lamports
    options,       \* options passed to createBatchTransactions
    fault,         \* the RPC of the first call that failed, "none" so far:
                   \* "resolver" (getBalance or
                   \* getParsedTokenAccountsByOwner), "blockhash" (the first
                   \* getLatestBlockhash), "blockhash2" (the second), "rent"
                   \* (getMinimumBalanceForRentExemption)
    destValid,     \* whether destinationAddress parses as a PublicKey
    failedRead,    \* what the first call was answered when it read the
                   \* destination account of the first holding a second time,
                   \* for the extra batch of addTxFailed ("unread" until then)
    call,          \* the first call of createBatchTransactions: the RPC it
                   \* waits for, the holding it reads next, the
                   \* getLatestBlockhash answers it holds, and its caller
    fetches,       \* getLatestBlockhash calls the ledger has answered
    pc,            \* position of the caller
    plan,          \* outcome of createBatchTransactions
    batches,       \* batch list handed to executeBatchTransactions
    execOpts,      \* executeInSequence, confirmTransactions
    wallet,        \* what the wallet provider offers for signing
    signed,        \* signedTransactions: signed[j] is the signed form of
                   \* the transaction of batch signed[j]
    signOutcome,   \* "none", "signed" or "thrown"
    bstate,        \* per batch: stage of its dispatch, what the ledger
                   \* answered to its submission and its confirmation, and
                   \* whether the 500 ms pause was taken after it
    seqIndex,      \* loop index i of _executeBatchesSequentially (1-based)
    results,       \* results array (the array of Promise.all when parallel)
    sendCalls,     \* sendRawTransaction calls made so far
    outOfOrder,    \* history: some batch completed before a lower-indexed one
    execResult,    \* outcome of executeBatchTransactions
    runResult,     \* outcome of performBatchTransfer
    unitsCall,     \* one call of _calculateComputeUnits: arguments and result
    rerun          \* a second call of createBatchTransactions over the same
                   \* snapshot: what `call`, the reads, `fault` and `plan`
                   \* are to the first

planVars == <<holdings, solBalance, options, fault, destValid, failedRead, call, fetches,
              plan>>
auxVars == <<unitsCall, rerun>>
execVars == <<batches, execOpts, wallet, signed, signOutcome, bstate, seqIndex,
              results, sendCalls, outOfOrder, execResult>>

\* --------------------------------------------------- TransactionBuilder.js
\* Serialized size of a v0 transaction carrying the given instructions:
\* signature and message header, payer key and blockhash, then each
\* instruction with the account keys it brings in.
InstrBytes(ix) ==
    CASE ix = "setComputeUnitPrice" -> 44
      [] ix = "setComputeUnitLimit" -> 8
      [] ix = "createIdempotent" -> 202
      [] ix = "transfer" -> 47
      [] ix = "transferWide" -> 1300
      [] ix = "closeAccount" -> 36
      [] ix = "systemTransfer" -> 84

RECURSIVE SumBytes(_)
SumBytes(ixs) == IF ixs = <<>> THEN 0 ELSE InstrBytes(Head(ixs)) + SumBytes(Tail(ixs))

SerializedSize(ixs) == 134 + SumBytes(ixs)

\* validateTransactionSize: the limit is the literal 1200, whatever the
\* maxTransactionSize option says.
ValidateTransactionSize(ixs) == SerializedSize(ixs) < SizeLimit

\* buildTransaction: the instruction list of the transaction it returns and
\* the lamports its SystemProgram.transfer carries,
\* Math.floor(solTransferAmount * LAMPORTS_PER_SOL); ok is FALSE when it
\* throws "Transaction too large".
BuildTransaction(transferInstructions, solTransferAmount) ==
    LET withSol == JsGreater(solTransferAmount, DZero)
        bulk == IF withSol
                THEN Append(transferInstructions, "systemTransfer")
                ELSE transferInstructions
    IN  IF ValidateTransactionSize(bulk)
        THEN [ok |-> TRUE, ixs |-> bulk,
              lamports |-> IF withSol THEN FloorLamports(solTransferAmount) ELSE 0]
        ELSE [ok |-> FALSE, ixs |-> <<>>, lamports |-> 0]

\* ------------------------------------------------- BatchTransactionManager
\* What connection.getAccountInfo meets for a holding's destination account:
\* the ledger's answer when it is given the derived address, a thrown
\* TypeError when it is given the un-awaited Promise of the address.
DestRead(h, awaited) == IF awaited THEN h.dest ELSE "unreadable"

\* an existence check that takes a failed read for an existing account
CheckAssociatedTokenAccountExists_ErrorAsPresent(read) == read # "absent"

\* _checkAssociatedTokenAccountExists: accountInfo !== null, false on error
CheckAssociatedTokenAccountExists(read) == read = "present"

Min(a, b) == IF a < b THEN a ELSE b
Max(a, b) == IF a > b THEN a ELSE b

\* _calculateComputeUnits, in integers: the scaling factor and the buffer
\* multiplier are kept in tenths.
CalculateComputeUnits(instructionCount, tokenCount) ==
    LET baseUnits == 10000
        scaling10 == Min(tokenCount, 3)
        perToken == IF tokenCount = 1
                    THEN 34000
                    ELSE tokenCount * ((34000 * (10 + scaling10)) \div 10)
        buffer10 == IF tokenCount > 10 THEN 20
                    ELSE IF tokenCount > 5 THEN 18 ELSE 15
        totalUnits == ((baseUnits + perToken) * buffer10 + 9) \div 10
        minUnits == Max(MinComputeUnits, tokenCount * 40000)
        maxUnits == MaxComputeUnits
    IN  Max(minUnits, Min(maxUnits, totalUnits))

TransferIx(h) == IF h.shape = "wide" THEN "transferWide" ELSE "transfer"

\* The three-operation batch of the method's header comment (create,
\* transfer, close), built without consulting the existence check.
CreateIndividualTokenBatch_ThreeOps(h, mint, block, batchIndex) ==
    LET instructions == <<"createIdempotent", TransferIx(h), "closeAccount">>
        computeUnits == CalculateComputeUnits(Len(instructions), 1)
        withBudget == <<"setComputeUnitPrice", "setComputeUnitLimit">> \o instructions
        built == BuildTransaction(withBudget, DZero)
    IN  [ok |-> built.ok,
         batch |-> [type |-> "individual_token",
                    txInstrs |-> built.ixs,
                    instructions |-> withBudget,
                    accountsProcessed |-> 1,
                    computeUnits |-> computeUnits,
                    batchIndex |-> batchIndex,
                    mint |-> mint,
                    solAmount |-> DZero,
                    lamports |-> built.lamports,
                    block |-> block]]

\* _createIndividualTokenBatch: [ok |-> FALSE] when it throws
CreateIndividualTokenBatch(h, mint, block, batchIndex) ==
    LET accountExists == CheckAssociatedTokenAccountExists(DestRead(h, TRUE))
        instructions == (IF ~accountExists THEN <<"createIdempotent">> ELSE <<>>)
                        \o <<TransferIx(h)>>
        computeUnits == CalculateComputeUnits(Len(instructions), 1)
        withBudget == <<"setComputeUnitPrice", "setComputeUnitLimit">> \o instructions
        built == BuildTransaction(withBudget, DZero)
    IN  [ok |-> built.ok,
         batch |-> [type |-> "individual_token",
                    txInstrs |-> built.ixs,
                    instructions |-> withBudget,
                    accountsProcessed |-> 1,
                    computeUnits |-> computeUnits,
                    batchIndex |-> batchIndex,
                    mint |-> mint,
                    solAmount |-> DZero,
                    lamports |-> built.lamports,
                    block |-> block]]

\* _createSolTransferBatch: the batch record has no computeUnits, no
\* batchIndex and an empty instructions field (0, -1 and <<>> here);
\* solAmount is the amount in SOL, lamports what the transaction transfers.
CreateSolTransferBatch(solAmount, block) ==
    LET built == BuildTransaction(<<>>, solAmount)
    IN  [ok |-> built.ok,
         batch |-> [type |-> "sol_transfer",
                    txInstrs |-> built.ixs,
                    instructions |-> <<>>,
                    accountsProcessed |-> 0,
                    computeUnits |-> 0,
                    batchIndex |-> -1,
                    mint |-> 0,
                    solAmount |-> solAmount,
                    lamports |-> built.lamports,
                    block |-> block]]

\* _createTokenBatchesOnly: the loop over tokenAccounts from index i on; a
\* holding whose batch cannot be built is logged and skipped.
RECURSIVE TokenBatchesFrom(_, _, _)
TokenBatchesFrom(hs, i, block) ==
    IF i > Len(hs) THEN <<>>
    ELSE LET r == CreateIndividualTokenBatch(hs[i], i, block, i - 1)
         IN  (IF r.ok THEN <<r.batch>> ELSE <<>>) \o TokenBatchesFrom(hs, i + 1, block)

CreateTokenBatchesOnly(hs, block) == TokenBatchesFrom(hs, 1, block)

\* _calculateTotalTransactionFees, SOL: for every batch the base fee plus
\* (computeUnits * 50000) / 10^15, added up from 0 in batch order.  The
\* product is exact, so the quotient is computeUnits / (5^10 * 2^11)
\* rounded once.
BatchFeeOf(units) ==
    LET computeUnits == IF units = 0 THEN FallbackComputeUnits ELSE units
        computeFee == JsDivide(computeUnits, 10, 11)
    IN  JsPlus(BaseFee, computeFee)

\* The fee of a batch depends on its computeUnits alone.  For the values
\* the builders set (none on the SOL batch, _calculateComputeUnits(n, 1) on
\* a token batch of n instructions) it is worked out once and looked up.
BuilderComputeUnits == {0} \cup {CalculateComputeUnits(n, 1) : n \in 1..3}
BuilderBatchFees == {<<units, BatchFeeOf(units)>> : units \in BuilderComputeUnits}
BatchFee(b) ==
    IF b.computeUnits \in BuilderComputeUnits
    THEN The({fee[2] : fee \in {f \in BuilderBatchFees : f[1] = b.computeUnits}})
    ELSE BatchFeeOf(b.computeUnits)

RECURSIVE FeesFrom(_, _, _)
FeesFrom(bs, i, totalFees) ==
    IF i > Len(bs) THEN totalFees
    ELSE FeesFrom(bs, i + 1, JsPlus(totalFees, BatchFee(bs[i])))

CalculateTotalTransactionFees(bs) == The({FeesFrom(batchList, 1, DZero) : batchList \in {bs}})

\* _calculateRentForAssociatedAccounts, SOL.  The destination address is
\* passed on without await, so every existence check in this loop throws
\* and answers false.  When getMinimumBalanceForRentExemption fails the
\* estimate is 0.00203928 * tokenAccounts.length.
CalculateRentForAssociatedAccounts(hs, flt) ==
    IF flt = "rent" THEN JsTimesInt(EstimatedRent, Len(hs))
    ELSE LET accountsToCreate ==
                 Cardinality({i \in 1..Len(hs) :
                     ~CheckAssociatedTokenAccountExists(DestRead(hs[i], FALSE))})
         IN  JsDivPow10(RentExemptMin * accountsToCreate, 9)

Thrown(fetched) ==
    [kind |-> "thrown", batches |-> <<>>, totalTokens |-> 0, solToTransfer |-> DZero,
     totalTransactionFees |-> DZero, message |-> "failed", blockFetches |-> fetched,
     tokenTransactionFees |-> DZero, rentForAssociatedAccounts |-> DZero]

\* createBatchTransactions, lines 94-97, with the reserve left out of the
\* subtraction
SolToTransfer_IgnoreReserve(balance, solReserveAmount, tokenTransactionFees, rent) ==
    JsMax0(JsMinus(JsMinus(balance, tokenTransactionFees), rent))

\* createBatchTransactions, lines 94-97: availableSol, solAfterTokenFees,
\* solAfterRent, Math.max(0, solAfterRent)
SolToTransfer(balance, solReserveAmount, tokenTransactionFees, rent) ==
    LET availableSol == JsMinus(balance, solReserveAmount)
        solAfterTokenFees == JsMinus(availableSol, tokenTransactionFees)
        solAfterRent == JsMinus(solAfterTokenFees, rent)
    IN  JsMax0(solAfterRent)

\* A SOL batch for every positive amount, whatever includeSol says
WantSolBatch_AnyPositive(includeSol, solToTransfer) ==
    JsGreater(solToTransfer, DZero)

\* createBatchTransactions, lines 101 and 114: the two nested tests that
\* guard the creation of the SOL batch
WantSolBatch(includeSol, solToTransfer) ==
    /\ Truthy(includeSol)
    /\ JsGreater(solToTransfer, DZero)
    /\ JsGreater(solToTransfer, DustThreshold)

\* createBatchTransactions, line 59: the test of the early return
NothingToTransfer(hs, bal, opts) ==
    /\ Len(hs) = 0
    /\ (~Truthy(opts.includeSol)
        \/ JsLessEq(GetSolBalance(bal), opts.solReserveAmount))

\* createBatchTransactions: what the call returns or throws, given what
\* its RPCs were answered.  hs are the token accounts with the answers to
\* the reads of their destination accounts, bal is the balance the ledger
\* reports, in lamports, flt the RPC that failed, again the answer to the
\* second read of the first holding's destination account, made for the
\* extra batch, block1 and block2 the two getLatestBlockhash answers.
CreateBatchTransactions(hs, bal, opts, flt, dv, again, block1, block2) ==
    IF flt = "resolver" THEN Thrown(0)
    ELSE IF NothingToTransfer(hs, bal, opts)
    THEN [kind |-> "returned", batches |-> <<>>, totalTokens |-> 0,
          solToTransfer |-> DZero, totalTransactionFees |-> DZero,
          message |-> "nothing", blockFetches |-> 0,
          tokenTransactionFees |-> DZero, rentForAssociatedAccounts |-> DZero]
    ELSE IF ~dv THEN Thrown(0)
    ELSE IF flt = "blockhash" THEN Thrown(0)
    ELSE IF flt = "blockhash2" THEN Thrown(1)
    ELSE
    \* the values in the order the code computes them, each named once
    \* computed: tokenBatches, tokenTransactionFees and the rent, then
    \* solToTransfer, then the SOL batch
    The({The({The({
        LET totalTokens == Len(hs)
            wantSol == WantSolBatch(opts.includeSol, solToTransfer)
            withSol == IF wantSol THEN tokenBatches \o <<sol.batch>> ELSE tokenBatches
            wantFailed == Truthy(opts.addTxFailed) /\ Len(hs) > 0
            failed == CreateIndividualTokenBatch([hs[1] EXCEPT !.dest = again], 1, block2,
                                                 FailedBatchIndex)
            allBatches == IF wantFailed THEN withSol \o <<failed.batch>> ELSE withSol
        IN  IF (wantSol /\ ~sol.ok) \/ (wantFailed /\ ~failed.ok) THEN Thrown(2)
            ELSE [kind |-> "returned", batches |-> allBatches, totalTokens |-> totalTokens,
                  solToTransfer |-> solToTransfer,
                  totalTransactionFees |-> CalculateTotalTransactionFees(allBatches),
                  message |-> "created", blockFetches |-> 2,
                  tokenTransactionFees |-> tokenTransactionFees,
                  rentForAssociatedAccounts |-> rent]
        : sol \in {CreateSolTransferBatch(solToTransfer, block2)}})
        : solToTransfer \in {SolToTransfer(GetSolBalance(bal), opts.solReserveAmount,
                                           tokenTransactionFees, rent)}})
        : tokenBatches \in {CreateTokenBatchesOnly(hs, block1)},
          tokenTransactionFees \in {CalculateTotalTransactionFees(CreateTokenBatchesOnly(hs, block1))},
          rent \in {CalculateRentForAssociatedAccounts(hs, flt)}})

NoPlan ==
    [kind |-> "none", batches |-> <<>>, totalTokens |-> 0, solToTransfer |-> DZero,
     totalTransactionFees |-> DZero, message |-> "none", blockFetches |-> 0,
     tokenTransactionFees |-> DZero, rentForAssociatedAccounts |-> DZero]

\* ------------------------------------------------ specification: planning
vars == <<holdings, solBalance, options, fault, destValid, failedRead, call, fetches, pc,
          plan, batches,
          execOpts, wallet, signed, signOutcome, bstate, seqIndex, results,
          sendCalls, outOfOrder, execResult, runResult, unitsCall, rerun>>

NoResult ==
    [batchIndex |-> -1, batchType |-> "none", success |-> FALSE, tx |-> 0,
     confirmation |-> "none", error |-> "none"]
NoSummary ==
    [totalBatches |-> 0, successfulBatches |-> 0, failedBatches |-> 0, batchTypes |-> <<>>]
NoExecResult ==
    [kind |-> "none", success |-> FALSE, message |-> "none", hasResults |-> FALSE,
     results |-> <<>>, hasSummary |-> FALSE, batchSummary |-> NoSummary]
\* hasResults and hasPlan say whether the returned object has the key
\* results and the keys batches, totalTokens and solToTransfer
NoRunResult ==
    [kind |-> "none", success |-> FALSE, message |-> "none", hasResults |-> FALSE,
     results |-> <<>>, hasPlan |-> FALSE, batches |-> <<>>, totalTokens |-> 0,
     solToTransfer |-> DZero]
IdleBatch == [stage |-> "idle", send |-> "none", confirm |-> "none", paused |-> FALSE]
NoUnitsCall == [instructionCount |-> 0, tokenCount |-> 0, finalUnits |-> 0, returned |-> FALSE]
NoCall == [stage |-> "idle", next |-> 1, block1 |-> 0, block2 |-> 0, caller |-> "none"]
NoRerun ==
    [stage |-> "idle", next |-> 1, reads |-> <<>>, again |-> "unread", fault |-> "none",
     block1 |-> 0, block2 |-> 0, plan |-> NoPlan]
AuxIdle == unitsCall = NoUnitsCall /\ rerun = NoRerun
PlanIdle == fault = "none" /\ failedRead = "unread" /\ call = NoCall /\ fetches = 0

ExecIdle ==
    /\ signed = <<>>
    /\ signOutcome = "none"
    /\ bstate = <<>>
    /\ seqIndex = 1
    /\ results = <<>>
    /\ sendCalls = <<>>
    /\ outOfOrder = FALSE
    /\ execResult = NoExecResult
    /\ runResult = NoRunResult

Init ==
    /\ holdings \in HoldingLists
    /\ solBalance \in SolBalances
    /\ options \in OptionSets
    /\ destValid \in BOOLEAN
    /\ PlanIdle
    /\ pc = "start"
    /\ plan = NoPlan
    /\ batches = <<>>
    /\ execOpts = [executeInSequence |-> FALSE, confirmTransactions |-> TRUE]
    /\ wallet = "batch"
    /\ ExecIdle
    /\ AuxIdle

\* ----------- createBatchTransactions, from one awaited RPC to the next
\* A call runs until it awaits an RPC and goes on when the RPC is
\* answered; whatever else is pending runs in between, a second call on
\* the same manager included.  Between two steps a call is at a stage:
\* "resolve" (getBalance and getParsedTokenAccountsByOwner both awaited by
\* the Promise.all of getAllTokenData), "resolveB" and "resolveT" (the
\* balance, or the token accounts, answered and the other awaited),
\* "blockhash1" (getLatestBlockhash of _createTokenBatchesOnly), "read"
\* (getAccountInfo for holding `next`), "rent"
\* (getMinimumBalanceForRentExemption), "blockhash2" (getLatestBlockhash of
\* line 99), "reread" (getAccountInfo for the extra batch) and "done"
\* (returned or thrown).  Pass(c) is call c as it stands: its stage, the
\* answers it has, and the ordinals of its two getLatestBlockhash answers.
Passes == {1, 2}

Pass(c) ==
    IF c = 1
    THEN [stage |-> call.stage, next |-> call.next,
          reads |-> [i \in 1..Len(holdings) |-> holdings[i].dest],
          again |-> failedRead, fault |-> fault,
          block1 |-> call.block1, block2 |-> call.block2]
    ELSE [stage |-> rerun.stage, next |-> rerun.next, reads |-> rerun.reads,
          again |-> rerun.again, fault |-> rerun.fault,
          block1 |-> rerun.block1, block2 |-> rerun.block2]

\* The two calls plan over one snapshot: a destination account that one
\* call has read is, to the other, as the ledger stands or unreadable (the
\* read fails in transit); a read that failed tells nothing.
RereadChoices(d) ==
    IF d \in {"unread", "unreadable"} THEN DestStates ELSE {d, "unreadable"}

\* what the other call was answered for holding i, and for the extra batch
OtherRead(c, i) ==
    IF c = 2 THEN holdings[i].dest
    ELSE IF i \in DOMAIN rerun.reads THEN rerun.reads[i] ELSE "unread"
OtherAgain(c) == IF c = 2 THEN failedRead ELSE rerun.again

\* The answers of an RPC other than getAccountInfo: TRUE (it returns) or
\* FALSE (it throws).  At most one such RPC fails.
RpcAnswers == IF fault = "none" /\ rerun.fault = "none" THEN BOOLEAN ELSE {TRUE}

Throws(p, flt) == [p EXCEPT !.stage = "done", !.fault = flt]

\* lines 46-69, once getAllTokenData has returned: the early return, the
\* parse of the destination address (new PublicKey throws), or on to
\* _createTokenBatchesOnly
AfterTokenData(p) ==
    IF NothingToTransfer(holdings, solBalance, options) \/ ~destValid
    THEN [p EXCEPT !.stage = "done"]
    ELSE [p EXCEPT !.stage = "blockhash1"]

\* Promise.all rejects as soon as one of the two fails
BalanceAnswered(p, ok) ==
    IF ~ok THEN Throws(p, "resolver")
    ELSE IF p.stage = "resolveT" THEN AfterTokenData(p)
    ELSE [p EXCEPT !.stage = "resolveB"]

TokensAnswered(p, ok) ==
    IF ~ok THEN Throws(p, "resolver")
    ELSE IF p.stage = "resolveB" THEN AfterTokenData(p)
    ELSE [p EXCEPT !.stage = "resolveT"]

\* k is the ordinal of the getLatestBlockhash answer
Blockhash1Answered(p, ok, k) ==
    IF ~ok THEN Throws(p, "blockhash")
    ELSE [p EXCEPT !.block1 = k, !.next = 1,
                   !.stage = IF Len(holdings) > 0 THEN "read" ELSE "rent"]

\* the loop of _createTokenBatchesOnly: the batch of holding `next` is
\* built, or given up, and the next holding's account is read
ReadAnswered(p, d) ==
    [p EXCEPT !.reads[p.next] = d, !.next = p.next + 1,
              !.stage = IF p.next < Len(holdings) THEN "read" ELSE "rent"]

\* _calculateRentForAssociatedAccounts catches the failure; lines 94-97
\* follow without an RPC
RentAnswered(p, ok) ==
    [p EXCEPT !.fault = IF ok THEN @ ELSE "rent", !.stage = "blockhash2"]

\* line 99, then the SOL batch (built without an RPC; its three
\* instructions always fit a transaction) and the test of line 123
Blockhash2Answered(p, ok, k) ==
    IF ~ok THEN Throws(p, "blockhash2")
    ELSE [p EXCEPT !.block2 = k,
                   !.stage = IF Truthy(options.addTxFailed) /\ Len(holdings) > 0
                             THEN "reread" ELSE "done"]

FailedReadAnswered(p, d) == [p EXCEPT !.again = d, !.stage = "done"]

\* getAllTokenData of the second call on the same snapshot: the same token
\* accounts in the same order, each with what its existence check met
RerunHoldings(hs, reads) ==
    [i \in 1..Len(hs) |-> [dest |-> reads[i], shape |-> hs[i].shape]]

\* the token accounts of the first call with what its existence checks met
WithReads(hs, reads) ==
    [i \in 1..Len(hs) |-> [dest |-> reads[i], shape |-> hs[i].shape]]

\* what call c returns or throws once it is done
PlanOf(c, q) ==
    CreateBatchTransactions(IF c = 1 THEN WithReads(holdings, q.reads)
                            ELSE RerunHoldings(holdings, q.reads),
                            solBalance, options, q.fault, destValid, q.again,
                            q.block1, q.block2)

\* The caller of the first call goes on with what the call returned or
\* threw.  performBatchTransfer (lines 1075-1113): an exception is caught
\* and returned as a record without the plan's keys, an empty batch list
\* ends the run, any other goes to executeBatchTransactions.
Deliver(p) ==
    /\ plan' = p
    /\ IF call.caller # "run"
       THEN /\ pc' = "planned"
            /\ UNCHANGED <<batches, runResult>>
       ELSE IF p.kind = "thrown"
       THEN /\ runResult' = [kind |-> "returned", success |-> FALSE,
                             message |-> "Batch transfer failed",
                             hasResults |-> FALSE, results |-> <<>>,
                             hasPlan |-> FALSE, batches |-> <<>>, totalTokens |-> 0,
                             solToTransfer |-> DZero]
            /\ pc' = "run_done"
            /\ UNCHANGED batches
       ELSE IF p.batches = <<>>
       THEN /\ runResult' = [kind |-> "returned", success |-> TRUE,
                             message |-> "No tokens or SOL to transfer",
                             hasResults |-> FALSE, results |-> <<>>,
                             hasPlan |-> TRUE, batches |-> <<>>, totalTokens |-> 0,
                             solToTransfer |-> DZero]
            /\ pc' = "run_done"
            /\ UNCHANGED batches
       ELSE /\ batches' = p.batches
            /\ pc' = "exec"
            /\ UNCHANGED runResult

\* Call c goes on from an answer to its next await, or to its end
Install(c, q) ==
    /\ fetches' = Max(fetches, Max(q.block1, q.block2))
    /\ \E p \in {IF q.stage = "done" THEN PlanOf(c, q) ELSE NoPlan} :
         IF c = 1
         THEN /\ holdings' = WithReads(holdings, q.reads)
              /\ fault' = q.fault
              /\ failedRead' = q.again
              /\ call' = [call EXCEPT !.stage = q.stage, !.next = q.next,
                                      !.block1 = q.block1, !.block2 = q.block2]
              /\ IF q.stage = "done"
                 THEN Deliver(p)
                 ELSE UNCHANGED <<plan, pc, batches, runResult>>
              /\ UNCHANGED rerun
         ELSE /\ rerun' = [stage |-> q.stage, next |-> q.next, reads |-> q.reads,
                           again |-> q.again, fault |-> q.fault,
                           block1 |-> q.block1, block2 |-> q.block2, plan |-> p]
              /\ UNCHANGED <<holdings, fault, failedRead, call, plan, pc, batches, runResult>>
    /\ UNCHANGED <<solBalance, options, destValid, execOpts, wallet, signed, signOutcome,
                   bstate, seqIndex, results, sendCalls, outOfOrder, execResult, unitsCall>>

\* a caller calls createBatchTransactions(fromPublicKey, destination,
\* options): the call runs up to the Promise.all of getAllTokenData
PlanCall ==
    /\ pc = "start"
    /\ call' = [NoCall EXCEPT !.stage = "resolve", !.caller = "direct"]
    /\ pc' = "planning"
    /\ UNCHANGED <<holdings, solBalance, options, fault, destValid, failedRead, fetches, plan>>
    /\ UNCHANGED <<execVars, runResult, auxVars>>

\* getBalance is answered (SolanaClient.getSolBalance)
PlanBalance(c) ==
    /\ Pass(c).stage \in {"resolve", "resolveT"}
    /\ \E ok \in RpcAnswers : Install(c, BalanceAnswered(Pass(c), ok))

\* getParsedTokenAccountsByOwner is answered (TokenManager.getTokenAccounts)
PlanTokens(c) ==
    /\ Pass(c).stage \in {"resolve", "resolveB"}
    /\ \E ok \in RpcAnswers : Install(c, TokensAnswered(Pass(c), ok))

\* the getLatestBlockhash of _createTokenBatchesOnly is answered
PlanBlockhash1(c) ==
    /\ Pass(c).stage = "blockhash1"
    /\ \E ok \in RpcAnswers : Install(c, Blockhash1Answered(Pass(c), ok, fetches + 1))

\* the getAccountInfo of _createIndividualTokenBatch for holding `next` is
\* answered
PlanRead(c) ==
    /\ Pass(c).stage = "read"
    /\ \E d \in RereadChoices(OtherRead(c, Pass(c).next)) :
           Install(c, ReadAnswered(Pass(c), d))

\* getMinimumBalanceForRentExemption is answered
PlanRent(c) ==
    /\ Pass(c).stage = "rent"
    /\ \E ok \in RpcAnswers : Install(c, RentAnswered(Pass(c), ok))

\* the getLatestBlockhash of line 99 is answered
PlanBlockhash2(c) ==
    /\ Pass(c).stage = "blockhash2"
    /\ \E ok \in RpcAnswers : Install(c, Blockhash2Answered(Pass(c), ok, fetches + 1))

\* the getAccountInfo of the extra batch (lines 152-161) is answered
PlanFailedRead(c) ==
    /\ Pass(c).stage = "reread"
    /\ \E d \in RereadChoices(OtherAgain(c)) :
           Install(c, FailedReadAnswered(Pass(c), d))

Next ==
    \/ PlanCall
    \/ PlanBalance(1)
    \/ PlanTokens(1)
    \/ PlanBlockhash1(1)
    \/ PlanRead(1)
    \/ PlanRent(1)
    \/ PlanBlockhash2(1)
    \/ PlanFailedRead(1)

Spec == Init /\ [][Next]_vars

\* ------------------------------------------- UniversalWalletAdapter.js
\* What the wallet provider offers: nothing usable ("unavailable": no
\* provider, or connect() fails), signAllTransactions ("batch"), only
\* signTransaction ("single"), or neither ("nosign").
WalletKinds == {"unavailable", "batch", "single", "nosign"}
TxDecisions == {"ok", "rejected", "failed"}

RECURSIVE SignedIndividually(_, _, _)
SignedIndividually(each, i, n) ==
    IF i > n THEN <<>>
    ELSE (IF each[i] = "ok" THEN <<i>> ELSE <<>>) \o SignedIndividually(each, i + 1, n)

\* signAllTransactions(transactions) for n transactions; all is the user's
\* answer to the single prompt, each[i] the answer for transaction i when
\* they are signed one by one.  ok is FALSE when it throws.
SignAllTransactions(w, n, all, each) ==
    CASE w = "unavailable" -> [ok |-> FALSE, signed |-> <<>>]
      [] w = "batch" ->
            IF all = "ok" THEN [ok |-> TRUE, signed |-> [i \in 1..n |-> i]]
            ELSE [ok |-> FALSE, signed |-> <<>>]
      [] w = "single" ->
            LET signedTransactions == SignedIndividually(each, 1, n)
            IN  IF Len(signedTransactions) = 0 THEN [ok |-> FALSE, signed |-> <<>>]
                ELSE [ok |-> TRUE, signed |-> signedTransactions]
      [] w = "nosign" -> [ok |-> FALSE, signed |-> <<>>]

\* ------------------------------------- BatchTransactionManager: execution
SuccessResult(i, tx, confirmation) ==
    [batchIndex |-> i - 1, batchType |-> batches[i].type, success |-> TRUE,
     tx |-> tx, confirmation |-> confirmation, error |-> "none"]
FailureResult(i, error) ==
    [batchIndex |-> i - 1, batchType |-> batches[i].type, success |-> FALSE,
     tx |-> 0, confirmation |-> "none", error |-> error]

\* success as soon as one batch went through
ExecSuccess_AnySuccess(rs, bs) ==
    Cardinality({i \in 1..Len(rs) : rs[i].success}) > 0

\* success: successCount === totalCount
ExecSuccess(rs, bs) ==
    Cardinality({i \in 1..Len(rs) : rs[i].success}) = Len(bs)

\* results pushed as the callbacks finish, in completion order
PlaceResult_CompletionOrder(rs, i, r) ==
    LET free == {j \in 1..Len(rs) : rs[j] = NoResult}
        first == CHOOSE j \in free : \A k \in free : j <= k
    IN  [rs EXCEPT ![first] = r]

\* where Promise.all puts the value of the callback of batch i
PlaceResult(rs, i, r) == [rs EXCEPT ![i] = r]

\* a catch block that leaves the loop
NextIndexAfterFailure_Abort(i, n) == n + 1

\* the loop index after the catch block of batch i in the sequential loop
NextIndexAfterFailure(i, n) == i + 1

\* a summary whose failedBatches counts the failed submissions only
CreateBatchSummary_SendFailuresOnly(bs, rs) ==
    LET types == {bs[i].type : i \in 1..Len(bs)}
        ofType(t) == {i \in 1..Len(bs) : bs[i].type = t}
    IN  [totalBatches |-> Len(bs),
         successfulBatches |-> Cardinality({r \in 1..Len(rs) : rs[r].success}),
         failedBatches |-> Cardinality({r \in 1..Len(rs) : rs[r].error = "send"}),
         batchTypes |-> [t \in types |->
             [count |-> Cardinality(ofType(t)),
              successful |-> Cardinality({i \in ofType(t) : rs[i].success}),
              failed |-> Cardinality({i \in ofType(t) : rs[i].error = "send"})]]]

\* _createBatchSummary: the totals are counted over the results, the
\* per-type tallies over the batches, batch i being judged by results[i]
CreateBatchSummary(bs, rs) ==
    LET types == {bs[i].type : i \in 1..Len(bs)}
        ofType(t) == {i \in 1..Len(bs) : bs[i].type = t}
    IN  [totalBatches |-> Len(bs),
         successfulBatches |-> Cardinality({r \in 1..Len(rs) : rs[r].success}),
         failedBatches |-> Cardinality({r \in 1..Len(rs) : ~rs[r].success}),
         batchTypes |-> [t \in types |->
             [count |-> Cardinality(ofType(t)),
              successful |-> Cardinality({i \in ofType(t) : rs[i].success}),
              failed |-> Cardinality({i \in ofType(t) : ~rs[i].success})]]]

\* a submission that is made twice
SendAttempts_Twice(i, tx) == <<[batch |-> i, tx |-> tx], [batch |-> i, tx |-> tx]>>

\* the sendRawTransaction calls one iteration of the sequential loop makes
\* for batch i: the one call of the try block
SendAttempts(i, tx) == <<[batch |-> i, tx |-> tx]>>

K == Len(batches)

\* executeBatchTransactions on an empty batch list
ExecEmpty ==
    /\ pc = "exec"
    /\ batches = <<>>
    /\ execResult' = [kind |-> "returned", success |-> TRUE, message |-> "No batches to execute",
                      hasResults |-> TRUE, results |-> <<>>, hasSummary |-> FALSE,
                      batchSummary |-> NoSummary]
    /\ pc' = "exec_done"
    /\ UNCHANGED <<auxVars, planVars, batches, execOpts, wallet, signed, signOutcome, bstate,
                   seqIndex, results, sendCalls, outOfOrder, runResult>>

\* a signing step that swallows the signer's error and goes on to dispatch
\* the transactions it was given
ExecSign_DispatchAnyway ==
    /\ pc = "exec"
    /\ batches # <<>>
    /\ \E all \in {"ok", "reject"}, each \in [1..K -> TxDecisions] :
          LET r == SignAllTransactions(wallet, K, all, each)
          IN  /\ signed' = IF r.ok THEN r.signed ELSE [i \in 1..K |-> i]
              /\ signOutcome' = IF r.ok THEN "signed" ELSE "thrown"
    /\ bstate' = [i \in 1..K |-> IdleBatch]
    /\ pc' = "dispatch"
    /\ UNCHANGED <<auxVars, planVars, batches, execOpts, wallet, seqIndex, results, sendCalls,
                   outOfOrder, execResult, runResult>>

\* executeBatchTransactions up to the return of signAllTransactions; when
\* the signer throws, the catch block returns the error record
ExecSign ==
    /\ pc = "exec"
    /\ batches # <<>>
    /\ \E all \in {"ok", "reject"}, each \in [1..K -> TxDecisions] :
          LET r == SignAllTransactions(wallet, K, all, each)
          IN  IF r.ok
              THEN /\ signed' = r.signed
                   /\ signOutcome' = "signed"
                   /\ bstate' = [i \in 1..K |-> IdleBatch]
                   /\ pc' = "dispatch"
                   /\ UNCHANGED execResult
              ELSE /\ signOutcome' = "thrown"
                   /\ execResult' = [kind |-> "returned", success |-> FALSE,
                                     message |-> "Error executing batches",
                                     hasResults |-> FALSE, results |-> <<>>,
                                     hasSummary |-> FALSE, batchSummary |-> NoSummary]
                   /\ pc' = "exec_done"
                   /\ UNCHANGED <<signed, bstate>>
    /\ UNCHANGED <<auxVars, planVars, batches, execOpts, wallet, seqIndex, results, sendCalls,
                   outOfOrder, runResult>>

\* --- _executeBatchesSequentially
\* iteration i up to its first await: it calls sendRawTransaction, or fails
\* at once on serialize() when it has no signed transaction
SeqSend ==
    /\ pc = "dispatch"
    /\ execOpts.executeInSequence
    /\ seqIndex <= K
    /\ bstate[seqIndex].stage = "idle"
    /\ LET i == seqIndex IN
       IF i > Len(signed)
       THEN \* signedTransactions[i] is undefined: serialize() throws
            /\ bstate' = [bstate EXCEPT ![i] = [stage |-> "done", send |-> "noTx", confirm |-> "none", paused |-> FALSE]]
            /\ results' = Append(results, FailureResult(i, "serialize"))
            /\ seqIndex' = NextIndexAfterFailure(i, K)
            /\ UNCHANGED sendCalls
       ELSE /\ sendCalls' = sendCalls \o SendAttempts(i, signed[i])
            /\ bstate' = [bstate EXCEPT ![i] = [stage |-> "sending", send |-> "none", confirm |-> "none", paused |-> FALSE]]
            /\ UNCHANGED <<results, seqIndex>>
    /\ UNCHANGED <<auxVars, planVars, batches, execOpts, wallet, signed, signOutcome, outOfOrder,
                   execResult, runResult, pc>>

\* iteration i: sendRawTransaction returns or throws
SeqSendReturns ==
    /\ pc = "dispatch"
    /\ execOpts.executeInSequence
    /\ seqIndex <= K
    /\ bstate[seqIndex].stage = "sending"
    /\ LET i == seqIndex IN
       \E outcome \in {"ok", "throw"} :
          IF outcome = "throw"
          THEN /\ bstate' = [bstate EXCEPT ![i] = [stage |-> "done", send |-> "throw", confirm |-> "none", paused |-> FALSE]]
               /\ results' = Append(results, FailureResult(i, "send"))
               /\ seqIndex' = NextIndexAfterFailure(i, K)
          ELSE IF execOpts.confirmTransactions
          THEN /\ bstate' = [bstate EXCEPT ![i] = [stage |-> "confirming", send |-> "ok", confirm |-> "none", paused |-> FALSE]]
               /\ UNCHANGED <<results, seqIndex>>
          ELSE /\ results' = Append(results, SuccessResult(i, signed[i], "none"))
               /\ IF i < K
                  THEN /\ bstate' = [bstate EXCEPT ![i] = [stage |-> "delay", send |-> "ok", confirm |-> "none", paused |-> FALSE]]
                       /\ UNCHANGED seqIndex
                  ELSE /\ bstate' = [bstate EXCEPT ![i] = [stage |-> "done", send |-> "ok", confirm |-> "none", paused |-> FALSE]]
                       /\ seqIndex' = i + 1
    /\ UNCHANGED <<auxVars, planVars, batches, execOpts, wallet, signed, signOutcome, sendCalls,
                   outOfOrder, execResult, runResult, pc>>

\* iteration i: confirmTransaction returns ("ok": confirmed, "err": the
\* returned status carries the transaction's error) or throws
SeqConfirm ==
    /\ pc = "dispatch"
    /\ execOpts.executeInSequence
    /\ seqIndex <= K
    /\ bstate[seqIndex].stage = "confirming"
    /\ LET i == seqIndex IN
       \E outcome \in {"ok", "err", "throw"} :
          IF outcome = "throw"
          THEN /\ bstate' = [bstate EXCEPT ![i] = [stage |-> "done", send |-> "ok", confirm |-> "throw", paused |-> FALSE]]
               /\ results' = Append(results, FailureResult(i, "confirm"))
               /\ seqIndex' = NextIndexAfterFailure(i, K)
          ELSE /\ results' = Append(results, SuccessResult(i, signed[i], outcome))
               /\ IF i < K
                  THEN /\ bstate' = [bstate EXCEPT ![i] = [stage |-> "delay", send |-> "ok", confirm |-> outcome, paused |-> FALSE]]
                       /\ UNCHANGED seqIndex
                  ELSE /\ bstate' = [bstate EXCEPT ![i] = [stage |-> "done", send |-> "ok", confirm |-> outcome, paused |-> FALSE]]
                       /\ seqIndex' = i + 1
    /\ UNCHANGED <<auxVars, planVars, batches, execOpts, wallet, signed, signOutcome, sendCalls,
                   outOfOrder, execResult, runResult, pc>>

\* iteration i: the 500 ms pause after a successful batch that is not the last
SeqDelay ==
    /\ pc = "dispatch"
    /\ execOpts.executeInSequence
    /\ seqIndex <= K
    /\ bstate[seqIndex].stage = "delay"
    /\ bstate' = [bstate EXCEPT ![seqIndex].stage = "done", ![seqIndex].paused = TRUE]
    /\ seqIndex' = seqIndex + 1
    /\ UNCHANGED <<auxVars, planVars, batches, execOpts, wallet, signed, signOutcome, results,
                   sendCalls, outOfOrder, execResult, runResult, pc>>

\* the loop ends and the results are returned
SeqReturn ==
    /\ pc = "dispatch"
    /\ execOpts.executeInSequence
    /\ seqIndex > K
    /\ pc' = "aggregate"
    /\ UNCHANGED <<auxVars, planVars, execVars, runResult>>

\* --- _executeBatchesInParallel
\* batches.map starts every callback in index order; each runs up to its
\* first await: it calls sendRawTransaction, or fails at once on serialize()
\* when it has no signed transaction
ParDispatch ==
    /\ pc = "dispatch"
    /\ ~execOpts.executeInSequence
    /\ bstate' = [i \in 1..K |->
                    IF i <= Len(signed)
                    THEN [stage |-> "sending", send |-> "none", confirm |-> "none", paused |-> FALSE]
                    ELSE [stage |-> "done", send |-> "noTx", confirm |-> "none", paused |-> FALSE]]
    /\ results' = [i \in 1..K |->
                    IF i <= Len(signed) THEN NoResult ELSE FailureResult(i, "serialize")]
    /\ sendCalls' = [j \in 1..Min(K, Len(signed)) |-> [batch |-> j, tx |-> signed[j]]]
    \* a callback that failed on serialize() has finished while every
    \* lower-indexed callback that did send is still awaited
    /\ outOfOrder' = (outOfOrder \/ (0 < Len(signed) /\ Len(signed) < K))
    /\ pc' = "par"
    /\ UNCHANGED <<auxVars, planVars, batches, execOpts, wallet, signed, signOutcome, seqIndex,
                   execResult, runResult>>

EarlierPending(i) == \E j \in 1..(i - 1) : bstate[j].stage # "done"

\* sendRawTransaction of batch i returns or throws
ParSendReturns(i) ==
    /\ pc = "par"
    /\ bstate[i].stage = "sending"
    /\ \E outcome \in {"ok", "throw"} :
          IF outcome = "throw"
          THEN /\ bstate' = [bstate EXCEPT ![i] = [stage |-> "done", send |-> "throw", confirm |-> "none", paused |-> FALSE]]
               /\ results' = PlaceResult(results, i, FailureResult(i, "send"))
               /\ outOfOrder' = (outOfOrder \/ EarlierPending(i))
          ELSE IF execOpts.confirmTransactions
          THEN /\ bstate' = [bstate EXCEPT ![i] = [stage |-> "confirming", send |-> "ok", confirm |-> "none", paused |-> FALSE]]
               /\ UNCHANGED <<results, outOfOrder>>
          ELSE /\ bstate' = [bstate EXCEPT ![i] = [stage |-> "done", send |-> "ok", confirm |-> "none", paused |-> FALSE]]
               /\ results' = PlaceResult(results, i, SuccessResult(i, signed[i], "none"))
               /\ outOfOrder' = (outOfOrder \/ EarlierPending(i))
    /\ UNCHANGED <<auxVars, planVars, batches, execOpts, wallet, signed, signOutcome, seqIndex,
                   sendCalls, execResult, runResult, pc>>

\* confirmTransaction of batch i returns or throws
ParConfirmReturns(i) ==
    /\ pc = "par"
    /\ bstate[i].stage = "confirming"
    /\ \E outcome \in {"ok", "err", "throw"} :
          /\ bstate' = [bstate EXCEPT ![i] = [stage |-> "done", send |-> "ok", confirm |-> outcome, paused |-> FALSE]]
          /\ results' = PlaceResult(results, i,
                            IF outcome = "throw" THEN FailureResult(i, "confirm")
                            ELSE SuccessResult(i, signed[i], outcome))
    /\ outOfOrder' = (outOfOrder \/ EarlierPending(i))
    /\ UNCHANGED <<auxVars, planVars, batches, execOpts, wallet, signed, signOutcome, seqIndex,
                   sendCalls, execResult, runResult, pc>>

\* Promise.all resolves once every callback has returned
ParJoin ==
    /\ pc = "par"
    /\ \A i \in 1..K : bstate[i].stage = "done"
    /\ pc' = "aggregate"
    /\ UNCHANGED <<auxVars, planVars, execVars, runResult>>

\* executeBatchTransactions: count the successes and return
ExecFinish ==
    /\ pc = "aggregate"
    /\ execResult' = [kind |-> "returned", success |-> ExecSuccess(results, batches),
                      message |-> "Executed", hasResults |-> TRUE, results |-> results,
                      hasSummary |-> TRUE,
                      batchSummary |-> CreateBatchSummary(batches, results)]
    /\ pc' = "exec_done"
    /\ UNCHANGED <<auxVars, planVars, batches, execOpts, wallet, signed, signOutcome, bstate,
                   seqIndex, results, sendCalls, outOfOrder, runResult>>

\* --------------------------------------------- specification: execution
\* executeBatchTransactions called on a batch list of the two kinds of
\* batches the planner builds
SampleBatches ==
    {CreateIndividualTokenBatch([dest |-> "absent", shape |-> "plain"], 1, 1, 0).batch,
     CreateSolTransferBatch(JsDivPow10(2, 2), 1).batch}
BatchLists == UNION {[1..n -> SampleBatches] : n \in 0..MaxBatches}

InitExec ==
    /\ holdings = <<>>
    /\ solBalance = 0
    /\ options = EmptyOptions
    /\ destValid = TRUE
    /\ PlanIdle
    /\ plan = NoPlan
    /\ pc = "exec"
    /\ batches \in BatchLists
    /\ execOpts \in [executeInSequence : BOOLEAN, confirmTransactions : BOOLEAN]
    /\ wallet \in WalletKinds
    /\ ExecIdle
    /\ AuxIdle

ExecNext ==
    \/ ExecEmpty
    \/ ExecSign
    \/ SeqSend
    \/ SeqSendReturns
    \/ SeqConfirm
    \/ SeqDelay
    \/ SeqReturn
    \/ ParDispatch
    \/ \E i \in 1..K : ParSendReturns(i)
    \/ \E i \in 1..K : ParConfirmReturns(i)
    \/ ParJoin
    \/ ExecFinish

SpecExec == InitExec /\ [][ExecNext]_vars

\* ------------------------------------ specification: performBatchTransfer
\* performBatchTransfer up to the first await of the
\* createBatchTransactions it calls; it goes on when the call returns or
\* throws (Deliver)
RunPlan ==
    /\ pc = "run"
    /\ call' = [NoCall EXCEPT !.stage = "resolve", !.caller = "run"]
    /\ pc' = "planning"
    /\ UNCHANGED <<holdings, solBalance, options, fault, destValid, failedRead, fetches, plan>>
    /\ UNCHANGED <<execVars, runResult, auxVars>>

\* performBatchTransfer after executeBatchTransactions has returned
RunFinish ==
    /\ pc = "exec_done"
    /\ runResult' = [kind |-> "returned", success |-> execResult.success,
                     message |-> execResult.message,
                     hasResults |-> execResult.hasResults,
                     results |-> execResult.results, hasPlan |-> TRUE,
                     batches |-> batches, totalTokens |-> plan.totalTokens,
                     solToTransfer |-> plan.solToTransfer]
    /\ pc' = "run_done"
    /\ UNCHANGED <<auxVars, planVars, execVars>>

\* The options object is one object for planning and for execution.
RunOptionSets ==
    {DefaultOptions, EmptyOptions,
     [addTxFailed |-> "false", includeSol |-> "true",
      solReserveAmount |-> DefaultReserve,
      maxTransactionSize |-> Num(DefaultMaxTransactionSize)]}
RunHoldingLists == UNION {[1..n -> HoldingKinds] : n \in 0..MaxRunHoldings}

InitRun ==
    /\ holdings \in RunHoldingLists
    /\ solBalance \in {1000000, 1000000000}
    /\ options \in RunOptionSets
    /\ destValid \in BOOLEAN
    /\ PlanIdle
    /\ plan = NoPlan
    /\ pc = "run"
    /\ batches = <<>>
    /\ execOpts \in [executeInSequence : BOOLEAN, confirmTransactions : BOOLEAN]
    /\ wallet \in WalletKinds
    /\ ExecIdle
    /\ AuxIdle

RunNext ==
    \/ RunPlan
    \/ PlanBalance(1)
    \/ PlanTokens(1)
    \/ PlanBlockhash1(1)
    \/ PlanRead(1)
    \/ PlanRent(1)
    \/ PlanBlockhash2(1)
    \/ PlanFailedRead(1)
    \/ ExecSign
    \/ SeqSend
    \/ SeqSendReturns
    \/ SeqConfirm
    \/ SeqDelay
    \/ SeqReturn
    \/ ParDispatch
    \/ \E i \in 1..K : ParSendReturns(i)
    \/ \E i \in 1..K : ParConfirmReturns(i)
    \/ ParJoin
    \/ ExecFinish
    \/ RunFinish

SpecRun == InitRun /\ [][RunNext]_vars

\* ------------------------------------------------------- claims: planning
Returned == pc = "planned" /\ plan.kind = "returned"

AssetBatchIndices == {k \in 1..Len(plan.batches) : plan.batches[k].type = "individual_token"}

RECURSIVE CountIx(_, _)
CountIx(ixs, kinds) ==
    IF ixs = <<>> THEN 0
    ELSE (IF Head(ixs) \in kinds THEN 1 ELSE 0) + CountIx(Tail(ixs), kinds)

WideHoldings == {i \in 1..Len(holdings) : holdings[i].shape = "wide"}

\* What the existence check behind batch b read: the extra batch of
\* addTxFailed reads the first holding's destination account again.
ReadOf(b) == IF b.batchIndex = FailedBatchIndex THEN failedRead ELSE holdings[b.mint].dest

\* C1: for every list of N holdings and every option setting, the returned
\* batch list contains exactly N batches of type individual_token, one per
\* holding.  Stated here for the lists in which every holding's instruction
\* set fits a transaction (the oversized holding is C3's case).
C1_ExactlyNAssetBatches ==
    (Returned /\ plan.message = "created" /\ WideHoldings = {})
        => /\ Cardinality(AssetBatchIndices) = Len(holdings)
           /\ \A i \in 1..Len(holdings) :
                  Cardinality({k \in AssetBatchIndices : plan.batches[k].mint = i}) = 1

\* C2: every asset batch holds its two compute-budget instructions, then at
\* most one create instruction, exactly one transfer instruction and no close
\* instruction, and the create instruction is there exactly when the
\* existence check of the holding's destination account answered false.
C2_AssetBatchComposition ==
    Returned =>
        \A k \in AssetBatchIndices :
            LET b == plan.batches[k]
                ops == SubSeq(b.instructions, 3, Len(b.instructions))
            IN  /\ Len(b.instructions) >= 3
                /\ b.instructions[1] = "setComputeUnitPrice"
                /\ b.instructions[2] = "setComputeUnitLimit"
                /\ b.txInstrs = b.instructions
                /\ CountIx(ops, {"createIdempotent"}) <= 1
                /\ CountIx(ops, {"transfer", "transferWide"}) = 1
                /\ CountIx(ops, {"closeAccount"}) = 0
                /\ Len(ops) = CountIx(ops, {"createIdempotent", "transfer", "transferWide"})
                /\ (CountIx(ops, {"createIdempotent"}) = 1
                        <=> ReadOf(b) # "present")

\* C2 witness: a plan with one asset batch that creates the destination
\* account and one that does not.
C2_Witness ==
    /\ Returned
    /\ \E k \in AssetBatchIndices : CountIx(plan.batches[k].instructions, {"createIdempotent"}) = 1
    /\ \E k \in AssetBatchIndices : CountIx(plan.batches[k].instructions, {"createIdempotent"}) = 0

\* C3: when exactly one holding's instruction set serializes over the size
\* ceiling, planning does not throw, that holding has no batch in the
\* returned list and every other holding has its batch, wherever the
\* oversized holding stands in the list.
C3_OversizedHoldingIsolated ==
    (pc = "planned" /\ fault = "none" /\ destValid /\ Cardinality(WideHoldings) = 1)
        => /\ plan.kind = "returned"
           /\ \A i \in 1..Len(holdings) :
                  (i \in WideHoldings) <=>
                      ~(\E k \in AssetBatchIndices : plan.batches[k].mint = i)

\* C4: for every maxTransactionSize passed by the caller, every asset batch
\* of the returned plan serializes to strictly fewer bytes than that value.
C4_SizeBelowOption ==
    (Returned /\ ~options.maxTransactionSize.nan)
        => \A k \in AssetBatchIndices :
               SerializedSize(plan.batches[k].txInstrs) < options.maxTransactionSize.val

\* ------------------------------------------------------ claims: execution
BatchFailed(i) == bstate[i].send \in {"throw", "noTx"} \/ bstate[i].confirm = "throw"
Dispatched == pc \in {"aggregate", "exec_done", "run_done"} /\ signOutcome = "signed"
SubmittedBatches == {sendCalls[c].batch : c \in 1..Len(sendCalls)}

\* C5: sequential dispatch of K batches returns K results in batch order;
\* the result of a batch is marked failed exactly when its submission or its
\* confirmation threw, and every batch that has a signed transaction is
\* submitted whatever happened to the others.
C5_SequentialIsolation ==
    (execOpts.executeInSequence /\ Dispatched)
        => /\ Len(results) = K
           /\ \A i \in 1..K :
                 /\ results[i].batchIndex = i - 1
                 /\ results[i].batchType = batches[i].type
                 /\ results[i].success <=> ~BatchFailed(i)
                 /\ i <= Len(signed) => i \in SubmittedBatches

\* C5 witness: three batches run in sequence, the second fails, the first
\* and the third succeed.
C5_Witness ==
    /\ execOpts.executeInSequence
    /\ pc = "exec_done"
    /\ K = 3
    /\ Len(results) = 3
    /\ results[1].success /\ ~results[2].success /\ results[3].success
    /\ bstate[2].send = "throw"

\* C6: under concurrent dispatch the results array has one entry per batch
\* and, in every interleaving, entry i is the outcome of batch i: it is
\* filled only by the callback of batch i, failed exactly when that batch's
\* submission or confirmation threw.
C6_ParallelIndexCorrespondence ==
    (~execOpts.executeInSequence /\ pc \in {"par", "aggregate", "exec_done", "run_done"}
            /\ signOutcome = "signed")
        => /\ Len(results) = K
           /\ \A i \in 1..K :
                 IF bstate[i].stage = "done"
                 THEN /\ results[i].batchIndex = i - 1
                      /\ results[i].batchType = batches[i].type
                      /\ results[i].success <=> ~BatchFailed(i)
                      /\ results[i].success => results[i].tx = signed[i]
                 ELSE results[i] = NoResult

\* C6 witness: a concurrent run that has finished, in which a batch
\* completed before a lower-indexed one and a failed batch has a successful
\* sibling.
C6_Witness ==
    /\ ~execOpts.executeInSequence
    /\ pc = "exec_done"
    /\ signOutcome = "signed"
    /\ outOfOrder
    /\ \E i, j \in 1..K : results[i].success /\ ~results[j].success

\* C7: the signer returns as many signed transactions as it was given and
\* element i is the signed form of element i, so the transaction submitted
\* for batch i is batch i's own.
C7_SigningPreservesIndex ==
    signOutcome = "signed"
        => /\ Len(signed) = K
           /\ \A i \in 1..Len(signed) : signed[i] = i
           /\ \A c \in 1..Len(sendCalls) : sendCalls[c].tx = sendCalls[c].batch

\* C8: for a non-empty batch list executeBatchTransactions returns (never
\* throws), and its success flag is true exactly when the number of
\* successful per-batch results equals the number of batches.
C8_SuccessFlag ==
    (pc = "exec_done" /\ batches # <<>>)
        => /\ execResult.kind = "returned"
           /\ execResult.success <=>
                  Cardinality({i \in 1..Len(execResult.results) :
                                  execResult.results[i].success}) = K

\* C8 witness: a finished run with a partial failure, returned with
\* success false.
C8_Witness ==
    /\ pc = "exec_done"
    /\ execResult.kind = "returned"
    /\ ~execResult.success
    /\ \E i, j \in 1..Len(execResult.results) :
          execResult.results[i].success /\ ~execResult.results[j].success

\* ------------------------------------------ claims: performBatchTransfer
\* C9: in a run where the resolver fails, the destination address is
\* invalid, or the signer rejects the whole signing call, no transaction is
\* ever submitted to the ledger.
C9_NoSubmissionOnFatal ==
    (fault = "resolver" \/ ~destValid \/ signOutcome = "thrown") => sendCalls = <<>>

\* C9 witness: a run whose plan held batches, whose signer rejected the
\* signing call, and which ended without any submission.
C9_Witness ==
    /\ pc = "run_done"
    /\ plan.kind = "returned"
    /\ batches # <<>>
    /\ signOutcome = "thrown"
    /\ sendCalls = <<>>

\* C10: a planning failure and a wholesale signer rejection both reach the
\* caller of performBatchTransfer as a thrown error, not as a returned
\* result record.
C10_FatalPropagates ==
    (pc = "run_done" /\ (plan.kind = "thrown" \/ signOutcome = "thrown"))
        => runResult.kind = "thrown"

\* ------------------------------------------- claims: planning, SOL sweep
SolBatchIndices == {k \in 1..Len(plan.batches) : plan.batches[k].type = "sol_transfer"}

\* C11: whenever the resolver returns zero holdings and the returned plan
\* holds no SOL batch, createBatchTransactions returns an empty batch list
\* together with the nothing-to-transfer message (no RPC call failing).
C11_NothingToTransfer ==
    (Returned /\ fault = "none" /\ holdings = <<>> /\ SolBatchIndices = {})
        => /\ plan.batches = <<>>
           /\ plan.message = "nothing"

\* C12: the returned plan holds a SOL batch only if includeSol is true and
\* the computed sweep amount is greater than 0.01 SOL, the batch carries that
\* amount (its transaction the whole lamports of it), and with includeSol
\* false there is no SOL batch whatever the balance.
C12_SolBatchOnlyWhenIncluded ==
    Returned =>
        /\ SolBatchIndices # {} =>
               /\ options.includeSol = "true"
               /\ JsGreater(plan.solToTransfer, DustThreshold)
        /\ \A k \in SolBatchIndices :
               /\ plan.batches[k].solAmount = plan.solToTransfer
               /\ plan.batches[k].lamports = FloorLamports(plan.solToTransfer)
        /\ options.includeSol = "false" => SolBatchIndices = {}

\* C12 witness: two holdings and a balance of 1 SOL planned with includeSol
\* false: asset batches, no SOL batch.
C12_Witness ==
    /\ Returned
    /\ options.includeSol = "false"
    /\ Len(holdings) = 2
    /\ solBalance = 1000000000
    /\ AssetBatchIndices # {}
    /\ SolBatchIndices = {}

\* C13 as stated: the sweep amount never exceeds solBalance minus
\* solReserveAmount, for every balance and every reserve.
C13_SweepAtMostBalanceMinusReserve ==
    (Returned /\ plan.message = "created")
        => ~JsGreater(plan.solToTransfer,
                      JsMinus(GetSolBalance(solBalance), options.solReserveAmount))

\* C13 amended: the sweep amount never exceeds max(0, solBalance minus
\* solReserveAmount); it is 0, which is more than the negative difference,
\* when the balance is below the reserve.  A SOL batch never carries more
\* than solBalance minus solReserveAmount, and its transaction no more
\* lamports than the balance holds above the reserve.
C13_SweepAtMostPositivePart ==
    (Returned /\ plan.message = "created")
        => /\ ~JsGreater(plan.solToTransfer,
                         JsMax0(JsMinus(GetSolBalance(solBalance),
                                        options.solReserveAmount)))
           /\ \A k \in SolBatchIndices :
                  /\ JsLessEq(plan.batches[k].solAmount,
                              JsMinus(GetSolBalance(solBalance), options.solReserveAmount))
                  /\ plan.batches[k].lamports + FloorLamports(options.solReserveAmount)
                         <= solBalance

\* C13 witness: a plan with asset batches whose fees and rent were taken
\* off, and a SOL batch carrying a positive sweep amount.
C13_Witness ==
    /\ Returned
    /\ SolBatchIndices # {}
    /\ JsGreater(plan.tokenTransactionFees, DZero)
    /\ JsGreater(plan.rentForAssociatedAccounts, DZero)
    /\ JsGreater(plan.solToTransfer, DZero)
    /\ JsGreater(JsMinus(GetSolBalance(solBalance), options.solReserveAmount),
                 plan.solToTransfer)

AssetBatchesOf(bs) == SelectSeq(bs, LAMBDA b : b.type = "individual_token")
AccountsToCreate == Cardinality({i \in 1..Len(holdings) : holdings[i].dest # "present"})

\* C14: the sweep amount equals max(0, solBalance - solReserveAmount - the
\* sum of the estimated fees of the asset batches in the plan - the rent of
\* the destination accounts to be created).  Stated for the plans in which
\* every holding has a batch and the rent reading succeeded.
C14_SweepFormula ==
    (Returned /\ plan.message = "created" /\ WideHoldings = {} /\ fault = "none"
            /\ ~options.solReserveAmount.nan)
        => plan.solToTransfer =
               SolToTransfer(GetSolBalance(solBalance), options.solReserveAmount,
                             CalculateTotalTransactionFees(AssetBatchesOf(plan.batches)),
                             JsDivPow10(RentExemptMin * AccountsToCreate, 9))

\* C15: in every returned plan the asset batches appear in the order the
\* holdings were resolved and the SOL batch, when present, is the last
\* element of the list.
C15_StableOrder ==
    Returned =>
        /\ \A k \in SolBatchIndices : k = Len(plan.batches)
        /\ \A j, k \in AssetBatchIndices :
               j < k => plan.batches[j].mint <= plan.batches[k].mint

\* ------------------------------- specification: _calculateComputeUnits
\* One call of _calculateComputeUnits(instructionCount, tokenCount) with the
\* arguments its callers pass: the number of instructions of a batch and the
\* number of token accounts the batch processes.
InitUnits ==
    /\ holdings = <<>>
    /\ solBalance = 0
    /\ options = EmptyOptions
    /\ destValid = TRUE
    /\ PlanIdle
    /\ plan = NoPlan
    /\ pc = "units"
    /\ batches = <<>>
    /\ execOpts = [executeInSequence |-> FALSE, confirmTransactions |-> TRUE]
    /\ wallet = "batch"
    /\ ExecIdle
    /\ rerun = NoRerun
    /\ \E i \in 1..MaxInstructionCount, t \in 1..MaxTokenCount :
           unitsCall = [instructionCount |-> i, tokenCount |-> t,
                        finalUnits |-> 0, returned |-> FALSE]

UnitsCall ==
    /\ pc = "units"
    /\ unitsCall' = [unitsCall EXCEPT
                        !.finalUnits = CalculateComputeUnits(unitsCall.instructionCount,
                                                             unitsCall.tokenCount),
                        !.returned = TRUE]
    /\ pc' = "units_done"
    /\ UNCHANGED <<planVars, execVars, runResult, rerun>>

UnitsNext == UnitsCall

SpecUnits == InitUnits /\ [][UnitsNext]_vars

\* C16: for every instruction count and every token count, the value
\* returned by _calculateComputeUnits lies within [50,000, 1,400,000].
C16_ComputeUnitsWithinRange ==
    unitsCall.returned
        => /\ unitsCall.finalUnits >= MinComputeUnits
           /\ unitsCall.finalUnits <= MaxComputeUnits

\* ------------------------ specification: planning twice on one snapshot
\* createBatchTransactions is called a second time on the same manager,
\* while the first call waits for an RPC or after it has ended; the
\* wallet's holdings, the balance, the destination's accounts and the
\* options are what they were.  The RPCs of the two calls are answered in
\* any order that keeps each call's own order.
PlanAgain ==
    /\ call.stage # "idle"
    /\ rerun.stage = "idle"
    /\ rerun' = [NoRerun EXCEPT !.stage = "resolve",
                                !.reads = [i \in 1..Len(holdings) |-> "unread"]]
    /\ UNCHANGED <<planVars, pc, execVars, runResult, unitsCall>>

TwiceHoldingLists == UNION {[1..n -> HoldingKinds] : n \in 0..MaxTwiceHoldings}

\* with and without the extra batch
TwiceOptionSets ==
    {DefaultOptions,
     [addTxFailed |-> "false", includeSol |-> "true",
      solReserveAmount |-> DefaultReserve,
      maxTransactionSize |-> Num(DefaultMaxTransactionSize)]}

InitTwice ==
    /\ holdings \in TwiceHoldingLists
    /\ solBalance \in {1000000, 1000000000}
    /\ options \in TwiceOptionSets
    /\ destValid = TRUE
    /\ PlanIdle
    /\ pc = "start"
    /\ plan = NoPlan
    /\ batches = <<>>
    /\ execOpts = [executeInSequence |-> FALSE, confirmTransactions |-> TRUE]
    /\ wallet = "batch"
    /\ ExecIdle
    /\ AuxIdle

TwiceNext ==
    \/ PlanCall
    \/ PlanAgain
    \/ \E c \in Passes : PlanBalance(c)
    \/ \E c \in Passes : PlanTokens(c)
    \/ \E c \in Passes : PlanBlockhash1(c)
    \/ \E c \in Passes : PlanRead(c)
    \/ \E c \in Passes : PlanRent(c)
    \/ \E c \in Passes : PlanBlockhash2(c)
    \/ \E c \in Passes : PlanFailedRead(c)

SpecTwice == InitTwice /\ [][TwiceNext]_vars

\* ------------------------------------------------- claims: idempotence
\* Kind and instruction composition of every batch of a list, the
\* blockhash left out
Structure(bs) ==
    [k \in 1..Len(bs) |-> [type |-> bs[k].type,
                           instructions |-> bs[k].instructions,
                           txInstrs |-> bs[k].txInstrs]]

BothReturned ==
    /\ pc = "planned"
    /\ rerun.stage = "done"
    /\ plan.kind = "returned"
    /\ rerun.plan.kind = "returned"

\* C17: two planning passes over the same unchanged snapshot of holdings
\* and native balance return structurally identical batch lists: the same
\* number of batches and, batch by batch, the same kind and the same
\* instruction composition (no RPC other than an existence check failing).
C17_Idempotent ==
    (BothReturned /\ fault = "none" /\ rerun.fault = "none")
        => Structure(plan.batches) = Structure(rerun.plan.batches)

\* ------------------------------------------------ claims: option defaults
\* The options object with every omitted option set to its documented
\* default (includeSol true, solReserveAmount 0.01, maxTransactionSize 1200)
WithDocumentedDefaults(opts) ==
    [opts EXCEPT
        !.includeSol = IF @ = "undefined" THEN "true" ELSE @,
        !.solReserveAmount = IF @.nan THEN DefaultReserve ELSE @,
        !.maxTransactionSize = IF @.nan THEN Num(DefaultMaxTransactionSize) ELSE @]

\* C18: a call that omits an option produces the same plan as a call that
\* passes that option's documented default value (valid destination, no
\* RPC call failing).
C18_OmittedOptionIsDefault ==
    (pc = "planned" /\ fault = "none" /\ destValid)
        => plan = CreateBatchTransactions(holdings, solBalance,
                                          WithDocumentedDefaults(options), fault, destValid,
                                          failedRead, call.block1, call.block2)

\* ------------------------------------------------ claims: failure records
\* C19: whenever performBatchTransfer returns success = false, the returned
\* object carries a results array of per-batch results, whatever the cause
\* of the failure (planning error, signer rejection, batch failure).
C19_FailureCarriesResults ==
    (pc = "run_done" /\ runResult.kind = "returned" /\ ~runResult.success)
        => runResult.hasResults

\* ------------------------------------------------------ claims: rent
CreatingHoldings ==
    {i \in 1..Len(holdings) :
        \E k \in AssetBatchIndices :
            /\ plan.batches[k].mint = i
            /\ CountIx(plan.batches[k].instructions, {"createIdempotent"}) = 1}

\* C20: the rent reserved in the sweep computation equals the rent-exempt
\* minimum times the number of holdings whose destination account does not
\* exist, the holdings whose asset batch carries a create instruction; a
\* holding whose destination account exists adds no rent.  Stated for the
\* plans in which every holding has a batch and the rent reading succeeded.
C20_RentForAccountsToCreate ==
    (Returned /\ plan.message = "created" /\ WideHoldings = {} /\ fault = "none")
        => /\ plan.rentForAssociatedAccounts
                  = JsDivPow10(RentExemptMin * AccountsToCreate, 9)
           /\ plan.rentForAssociatedAccounts
                  = JsDivPow10(RentExemptMin * Cardinality(CreatingHoldings), 9)

\* ------------------------------------------ claims: the returned plan
\* A planning pass in which no RPC call failed and every option is a value
CleanReturn ==
    /\ Returned
    /\ fault = "none"
    /\ ~options.solReserveAmount.nan
    /\ options.includeSol # "undefined"

\* The block field of a batch is the ordinal, among all getLatestBlockhash
\* answers received so far, of the answer the batch's transaction cites;
\* blockFetches is the number of such calls the pass made.

\* C21: the blockhash is fetched exactly once per planning pass and every
\* batch of the returned plan cites that one fetch.
C21_OneReferencePoint ==
    (CleanReturn /\ plan.message = "created")
        => /\ plan.blockFetches = 1
           /\ \A j, k \in 1..Len(plan.batches) :
                  plan.batches[j].block = plan.batches[k].block

\* C24: whenever a SOL batch is emitted, its transaction is the two
\* compute-budget instructions (unit price, unit limit) and a single
\* system transfer, and the batch record carries the compute-unit ceiling
\* used for its fee estimate.
C24_SolBatchComposition ==
    CleanReturn =>
        \A k \in SolBatchIndices :
            LET b == plan.batches[k]
            IN  /\ CountIx(b.txInstrs, {"systemTransfer"}) = 1
                /\ CountIx(b.txInstrs, {"setComputeUnitPrice"}) = 1
                /\ CountIx(b.txInstrs, {"setComputeUnitLimit"}) = 1
                /\ Len(b.txInstrs) = 3
                /\ b.computeUnits > 0

\* C27: in every returned plan no holding is the subject of more than one
\* asset batch.
C27_OneBatchPerHolding ==
    CleanReturn =>
        \A j, k \in AssetBatchIndices :
            plan.batches[j].mint = plan.batches[k].mint => j = k

\* C28: the totalTokens value of the returned plan equals the number of
\* asset batches present in the plan.
C28_TotalTokensCountsBatches ==
    CleanReturn => plan.totalTokens = Cardinality(AssetBatchIndices)

\* C29: the solToTransfer value of the returned plan equals the amount
\* carried by the plan's SOL batch, and is 0 whenever the plan holds no SOL
\* batch.
C29_SolToTransferIsBatchAmount ==
    CleanReturn =>
        /\ \A k \in SolBatchIndices : plan.solToTransfer = plan.batches[k].solAmount
        /\ SolBatchIndices = {} => plan.solToTransfer = DZero

\* ------------------------------------- claims: confirmation and pacing
\* C22: with confirmTransactions enabled, in both dispatch strategies, a
\* batch whose confirmation timed out (confirmTransaction threw) or reported
\* the transaction as rejected (the returned status carries an error) has a
\* failed result with the confirmation error captured, and a batch has a
\* successful result only if its confirmation completed without error.
C22_ConfirmationErrorMarksFailed ==
    (Dispatched /\ execOpts.confirmTransactions)
        => \A i \in 1..Len(results) :
               /\ bstate[i].confirm \in {"err", "throw"}
                      => (~results[i].success /\ results[i].error = "confirm")
               /\ results[i].success => bstate[i].confirm = "ok"

\* C23: in sequential dispatch batch i+1 is started only after batch i has
\* finished and the inter-batch pause has been taken after it, for every
\* batch i that is not the last, whether batch i succeeded or failed.
C23_PauseBetweenBatches ==
    (execOpts.executeInSequence /\ signOutcome = "signed" /\ bstate # <<>>)
        => \A i \in 1..(K - 1) :
               bstate[i + 1].stage # "idle"
                   => (bstate[i].stage = "done" /\ bstate[i].paused)

\* ------------------------------------------ claims: exactly-once dispatch
ResultsOf(i) ==
    {r \in 1..Len(results) : results[r] # NoResult /\ results[r].batchIndex = i - 1}

\* C26: during one run of executeBatchTransactions, in either dispatch
\* strategy, sendRawTransaction is called at most once per batch and at most
\* once per signed transaction, a failed submission or confirmation
\* included, and each batch gets exactly one result: none while it is in
\* flight, one from the moment it has succeeded or failed.
C26_SubmittedAtMostOnce ==
    /\ \A c, d \in 1..Len(sendCalls) :
           (sendCalls[c].batch = sendCalls[d].batch \/ sendCalls[c].tx = sendCalls[d].tx)
               => c = d
    /\ (signOutcome = "signed" /\ bstate # <<>>)
           => \A i \in 1..K :
                  Cardinality(ResultsOf(i)) =
                      IF bstate[i].stage \in {"done", "delay"} THEN 1 ELSE 0

\* C26 witness: a finished run of three batches in which a submission threw
\* and a confirmation threw, each of the three submitted once.
C26_Witness ==
    /\ pc = "exec_done"
    /\ K = 3
    /\ Len(sendCalls) = 3
    /\ \E i, j \in 1..K : bstate[i].send = "throw" /\ bstate[j].confirm = "throw"
    /\ \A i \in 1..K : Cardinality(ResultsOf(i)) = 1

\* ------------------------------------- claims: failed existence read
UnreadableHoldings == {i \in 1..Len(holdings) : holdings[i].dest = "unreadable"}
UnreadableBatches == {k \in AssetBatchIndices : ReadOf(plan.batches[k]) = "unreadable"}

\* C25: when the read of a holding's destination account fails, the
\* existence check answers false instead of throwing, planning goes on to a
\* returned plan, and every asset batch built on a failed read carries the
\* create instruction.  Stated for the plans in which no other call fails.
C25_ReadFailureMeansCreate ==
    (pc = "planned" /\ fault = "none" /\ destValid /\ WideHoldings = {}
            /\ (UnreadableHoldings # {} \/ failedRead = "unreadable"))
        => /\ plan.kind = "returned"
           /\ \A i \in UnreadableHoldings :
                  \E k \in UnreadableBatches : plan.batches[k].mint = i
           /\ failedRead = "unreadable"
                  => \E k \in UnreadableBatches : plan.batches[k].batchIndex = FailedBatchIndex
           /\ \A k \in UnreadableBatches :
                  CountIx(plan.batches[k].txInstrs, {"createIdempotent"}) = 1

\* C25 witness: a returned plan for two holdings, the read failing for the
\* second only, whose batch creates the account while the first's does not.
C25_Witness ==
    /\ Returned
    /\ Len(holdings) = 2
    /\ holdings[1].dest = "present"
    /\ holdings[2].dest = "unreadable"
    /\ \E k \in AssetBatchIndices :
           /\ plan.batches[k].mint = 2
           /\ CountIx(plan.batches[k].txInstrs, {"createIdempotent"}) = 1
    /\ \E k \in AssetBatchIndices :
           /\ plan.batches[k].mint = 1
           /\ CountIx(plan.batches[k].txInstrs, {"createIdempotent"}) = 0

\* ------------------------------------------------ claims: batch summary
BatchTypeNames == {"individual_token", "sol_transfer"}

TypeCount(summary, t) ==
    IF t \in DOMAIN summary.batchTypes THEN summary.batchTypes[t].count ELSE 0

\* C30: the batch summary of a dispatched run, in either strategy, has
\* successfulBatches + failedBatches = totalBatches = the number of batches,
\* per-type counts that sum to totalBatches, and for each type
\* successful + failed = count.
C30_SummaryAddsUp ==
    (pc = "exec_done" /\ execResult.hasSummary)
        => LET summary == execResult.batchSummary
           IN  /\ summary.totalBatches = K
               /\ summary.successfulBatches + summary.failedBatches = summary.totalBatches
               /\ DOMAIN summary.batchTypes \subseteq BatchTypeNames
               /\ TypeCount(summary, "individual_token") + TypeCount(summary, "sol_transfer")
                      = summary.totalBatches
               /\ \A t \in DOMAIN summary.batchTypes :
                      summary.batchTypes[t].successful + summary.batchTypes[t].failed
                          = summary.batchTypes[t].count

\* C30 witness: a summary over both batch types with a failed confirmation,
\* a batch without signed transaction or a failed submission, and a success.
C30_Witness ==
    /\ pc = "exec_done"
    /\ execResult.hasSummary
    /\ DOMAIN execResult.batchSummary.batchTypes = BatchTypeNames
    /\ execResult.batchSummary.successfulBatches > 0
    /\ execResult.batchSummary.failedBatches > 0
    /\ \E i \in 1..K : bstate[i].confirm = "throw"

====
